---- MODULE Spec2Model ----
(***************************************************************************)
(* A model of the Gravitino virtual file system client                     *)
(* (clients/client-python/gravitino/filesystem/gvfs.py).                   *)
(*                                                                         *)
(* Strings are tuples of one-character strings, so that prefix tests,      *)
(* slicing and the two regular expressions of the source are computed      *)
(* character by character.                                                 *)
(***************************************************************************)
EXTENDS Integers, Sequences, FiniteSets, TLC

(***************************************************************************)
(* String helpers (Python str.startswith, slicing, re on [^/]+).           *)
(***************************************************************************)
StartsWith(s, p) == Len(s) >= Len(p) /\ SubSeq(s, 1, Len(p)) = p

\* s[n:]
DropPrefix(s, n) == SubSeq(s, n + 1, Len(s))

\* index of the first "/" of s, 0 when there is none
FirstSlash(s) ==
    IF \E i \in 1..Len(s) : s[i] = "/"
    THEN CHOOSE i \in 1..Len(s) : s[i] = "/" /\ \A j \in 1..(i - 1) : s[j] # "/"
    ELSE 0

RECURSIVE SplitSlash(_)
SplitSlash(s) ==
    IF FirstSlash(s) = 0 THEN <<s>>
    ELSE <<SubSeq(s, 1, FirstSlash(s) - 1)>> \o SplitSlash(DropPrefix(s, FirstSlash(s)))

\* the longest prefix of s without "/": what ([^/]+) takes at the start of s
NoSlashRun(s) == IF FirstSlash(s) = 0 THEN s ELSE SubSeq(s, 1, FirstSlash(s) - 1)

(***************************************************************************)
(* Literals of the source.                                                 *)
(***************************************************************************)
PROTOCOL_NAME == <<"g", "v", "f", "s">>
gvfs_prefix == PROTOCOL_NAME \o <<":", "/", "/">>
fileset_word == <<"f", "i", "l", "e", "s", "e", "t">>
fileset_slash == fileset_word \o <<"/">>
HDFS_value == <<"h", "d", "f", "s">>
LAVAFS_value == <<"l", "a", "v", "a", "f", "s">>
LOCAL_value == <<"f", "i", "l", "e">>
\* f"{StorageType.LOCAL}:/" formats the enum member, not its value
LOCAL_key ==
    <<"S", "t", "o", "r", "a", "g", "e", "T", "y", "p", "e", ".",
      "L", "O", "C", "A", "L", ":", "/">>

\* the metalake the facade was constructed for
Metalake == <<"m">>

\* a raised exception, and a value returned
Raise(kind) == [ok |-> FALSE, err |-> kind, v |-> <<>>]
Ret(val) == [ok |-> TRUE, err |-> "", v |-> val]

(***************************************************************************)
(* PathTranslator                                                          *)
(***************************************************************************)
\* _pre_process_path: strip one leading gvfs://, require fileset/
_pre_process_path(virtual_path) ==
    LET pre_processed_path ==
            IF StartsWith(virtual_path, gvfs_prefix)
            THEN DropPrefix(virtual_path, Len(gvfs_prefix))
            ELSE virtual_path
    IN  IF ~StartsWith(pre_processed_path, fileset_slash)
        THEN Raise("InvalidPath")
        ELSE Ret(pre_processed_path)

\* the segments the pattern walks over: the path split at "/", one trailing
\* empty segment (the optional final "/") dropped
PatternSegments(path) ==
    LET parts == SplitSlash(path)
    IN  IF Len(parts) > 1 /\ parts[Len(parts)] = <<>>
        THEN SubSeq(parts, 1, Len(parts) - 1)
        ELSE parts

\* the pattern with [^/]* for [^/]+: empty names pass
_identifier_pattern_star(path) ==
    LET segs == PatternSegments(path)
    IN  /\ Len(segs) >= 4
        /\ segs[1] = fileset_word

\* ^fileset/([^/]+)/([^/]+)/([^/]+)(?:/[^/]+)*/?$
_identifier_pattern(path) ==
    LET segs == PatternSegments(path)
    IN  /\ Len(segs) >= 4
        /\ segs[1] = fileset_word
        /\ \A i \in 2..Len(segs) : segs[i] # <<>>

\* Python's None, where a path is expected
None == <<"None">>

\* an extraction that takes the last name of the path for the fileset
_extract_identifier_last(path) ==
    IF path = None THEN Raise("InvalidPath")
    ELSE IF _identifier_pattern(path)
    THEN LET segs == PatternSegments(path)
         IN  Ret(<<Metalake, segs[2], segs[3], segs[Len(segs)]>>)
    ELSE Raise("InvalidPath")

\* _extract_identifier: (metalake, catalog, schema, fileset)
_extract_identifier(path) ==
    IF path = None THEN Raise("InvalidPath")
    ELSE IF _identifier_pattern(path)
    THEN LET segs == PatternSegments(path)
         IN  Ret(<<Metalake, segs[2], segs[3], segs[4]>>)
    ELSE Raise("InvalidPath")

\* _get_virtual_location: fileset/{catalog}/{schema}/{fileset}
_get_virtual_location(identifier) ==
    fileset_slash \o identifier[2] \o <<"/">> \o identifier[3] \o <<"/">> \o identifier[4]

\* NameIdentifier.of_catalog(metalake, identifier.namespace().level(1))
CatalogIdent(identifier) == <<identifier[1], identifier[2]>>

(***************************************************************************)
(* StorageAdapterDispatch                                                  *)
(***************************************************************************)
_recognize_storage_type(path) ==
    IF StartsWith(path, HDFS_value \o <<":", "/", "/">>) THEN Ret("HDFS")
    ELSE IF StartsWith(path, LAVAFS_value \o <<":", "/", "/">>) THEN Ret("LAVAFS")
    ELSE IF StartsWith(path, LOCAL_value \o <<":", "/">>) THEN Ret("LOCAL")
    ELSE Raise("UnsupportedStorage")

\* re.match(r"<scheme>://([^/]+)", path).group(1)
AuthorityAfter(path, scheme) ==
    LET rest == DropPrefix(path, Len(scheme) + 3)
    IN  IF NoSlashRun(rest) = <<>> THEN Raise("InvalidPath") ELSE Ret(NoSlashRun(rest))

\* a key that keeps the path behind the authority
_parse_storage_host_path_whole(path) ==
    IF StartsWith(path, LOCAL_value \o <<":", "/">>) THEN Ret(LOCAL_key)
    ELSE IF StartsWith(path, HDFS_value \o <<":", "/", "/">>)
         THEN IF AuthorityAfter(path, HDFS_value).ok
              THEN Ret(DropPrefix(path, Len(HDFS_value) + 3))
              ELSE AuthorityAfter(path, HDFS_value)
    ELSE IF StartsWith(path, LAVAFS_value \o <<":", "/", "/">>)
         THEN IF AuthorityAfter(path, LAVAFS_value).ok
              THEN Ret(DropPrefix(path, Len(LAVAFS_value) + 3))
              ELSE AuthorityAfter(path, LAVAFS_value)
    ELSE Raise("UnsupportedStorage")

_parse_storage_host_path(path) ==
    IF StartsWith(path, LOCAL_value \o <<":", "/">>) THEN Ret(LOCAL_key)
    ELSE IF StartsWith(path, HDFS_value \o <<":", "/", "/">>)
         THEN AuthorityAfter(path, HDFS_value)
    ELSE IF StartsWith(path, LAVAFS_value \o <<":", "/", "/">>)
         THEN AuthorityAfter(path, LAVAFS_value)
    ELSE Raise("UnsupportedStorage")

_strip_storage_protocol(storage_type, path) ==
    IF storage_type = "LOCAL" THEN DropPrefix(path, Len(LOCAL_value) + 1) ELSE path

\* infer_storage_options(location)["path"]: what follows scheme://authority
InferPath(location) ==
    LET colon == IF \E i \in 1..Len(location) : location[i] = ":"
                 THEN CHOOSE i \in 1..Len(location) :
                        location[i] = ":" /\ \A j \in 1..(i - 1) : location[j] # ":"
                 ELSE 0
    IN  IF colon = 0 \/ ~StartsWith(DropPrefix(location, colon), <<"/", "/">>)
        THEN location
        ELSE LET rest == DropPrefix(location, colon + 2)
             IN  IF FirstSlash(rest) = 0 THEN <<>>
                 ELSE DropPrefix(rest, FirstSlash(rest) - 1)

\* str.replace(old, new): every non-overlapping occurrence, left to right
RECURSIVE Replace(_, _, _)
Replace(s, old, new) ==
    IF old = <<>>
    THEN IF s = <<>> THEN new ELSE new \o <<s[1]>> \o Replace(Tail(s), old, new)
    ELSE IF s = <<>> THEN <<>>
    ELSE IF StartsWith(s, old) THEN new \o Replace(DropPrefix(s, Len(old)), old, new)
    ELSE <<s[1]>> \o Replace(Tail(s), old, new)

\* _convert_actual_path (storage_type is one of the three recognized types)
_convert_actual_path(path, storage_location, storage_type, ident) ==
    LET actual_prefix ==
            IF storage_type \in {"HDFS", "LAVAFS"} THEN InferPath(storage_location)
            ELSE DropPrefix(storage_location, Len(LOCAL_value) + 1)
    IN  IF ~StartsWith(path, actual_prefix) THEN Raise("InvalidPath")
        ELSE Ret(Replace(path, actual_prefix, _get_virtual_location(ident)))

(***************************************************************************)
(* cachetools.LRUCache / TTLCache, as the facade uses them.  A cache is    *)
(* the sequence of its entries, least recently used first; ttl < 0 is the  *)
(* LRUCache (no expiry), ttl > 0 the TTLCache.                             *)
(***************************************************************************)
CacheKeys(c) == {c[i].key : i \in 1..Len(c)}

CacheIdx(c, k) == CHOOSE i \in 1..Len(c) : c[i].key = k

\* a cache that never looks at the expiry time
CacheHas_forever(c, k, ttl, t) ==
    \E i \in 1..Len(c) : c[i].key = k

\* key in cache: present and, in a TTLCache, not expired at time t
CacheHas(c, k, ttl, t) ==
    \E i \in 1..Len(c) : c[i].key = k /\ (ttl < 0 \/ t < c[i].exp)

\* cache.get(k): the value, or none
CacheGet(c, k, ttl, t, none) ==
    IF CacheHas(c, k, ttl, t) THEN c[CacheIdx(c, k)].val ELSE none

CacheRemove(c, k) ==
    LET other(e) == e.key # k IN SelectSeq(c, other)

\* the cache after cache.get(k): a hit makes k the most recently used
CacheTouch(c, k, ttl, t) ==
    IF CacheHas(c, k, ttl, t)
    THEN Append(CacheRemove(c, k), c[CacheIdx(c, k)])
    ELSE c

\* TTLCache.expire(t)
CacheExpire(c, ttl, t) ==
    LET live(e) == t < e.exp
    IN  IF ttl < 0 THEN c ELSE SelectSeq(c, live)

\* room made at the other end: the most recently used entries go
CacheEvict_mru(c, k, maxsize) ==
    IF k \in CacheKeys(c) THEN c
    ELSE IF Len(c) + 1 > maxsize THEN SubSeq(c, 1, maxsize - 1)
    ELSE c

\* the entries that make room for k: popitem() until the new entry fits
CacheEvict(c, k, maxsize) ==
    IF k \in CacheKeys(c) THEN c
    ELSE IF Len(c) + 1 > maxsize THEN SubSeq(c, Len(c) + 2 - maxsize, Len(c))
    ELSE c

\* cache[k] = v at time t
CacheSet(c, k, v, maxsize, ttl, t) ==
    LET kept == CacheRemove(CacheEvict(CacheExpire(c, ttl, t), k, maxsize), k)
    IN  Append(kept, [key |-> k, val |-> v, exp |-> IF ttl < 0 THEN 0 ELSE t + ttl])

\* the keys cache[k] = v throws out: the expired ones and the evicted ones
CacheDropped(c, k, maxsize, ttl, t) ==
    (CacheKeys(c) \ CacheKeys(CacheExpire(c, ttl, t)))
        \cup (CacheKeys(CacheExpire(c, ttl, t))
                \ CacheKeys(CacheEvict(CacheExpire(c, ttl, t), k, maxsize)))

(***************************************************************************)
(* Bounds of the model and the inputs the callers draw from.               *)
(***************************************************************************)
\* calls made in one behaviour of the "policy" scenario
MaxCalls == 3
\* calls made in one behaviour of the "facade" scenario
MaxFacadeCalls == 2
\* calls made by the two concurrent callers together
MaxCacheCalls == 2
\* callers of the "fair" scenario
MaxFairCallers == 2
\* the clock of the TTLCache stops here
MaxTime == 2
\* LRUCache(maxsize=100) of the catalog cache, scaled down so that the model
\* can fill it
CatalogCacheMaxSize == 2

Threads == {"t1", "t2", "t3"}
NoThread == "none"

Seg(s) == <<"/">> \o s
V_c_s_f_a == fileset_word \o Seg(<<"c">>) \o Seg(<<"s">>) \o Seg(<<"f">>) \o Seg(<<"a">>)
V_gvfs_c_s_f_b ==
    gvfs_prefix \o fileset_word \o Seg(<<"c">>) \o Seg(<<"s">>) \o Seg(<<"f">>) \o Seg(<<"b">>)
V_c_s_g == fileset_word \o Seg(<<"c">>) \o Seg(<<"s">>) \o Seg(<<"g">>)
V_d_s_f_a == fileset_word \o Seg(<<"d">>) \o Seg(<<"s">>) \o Seg(<<"f">>) \o Seg(<<"a">>)
V_e_s_f_slash == fileset_word \o Seg(<<"e">>) \o Seg(<<"s">>) \o Seg(<<"f">>) \o <<"/">>
I_c_s == fileset_word \o Seg(<<"c">>) \o Seg(<<"s">>)
I_nofileset == <<"c">> \o Seg(<<"s">>) \o Seg(<<"f">>) \o Seg(<<"a">>)
I_empty_segment == fileset_word \o Seg(<<"c">>) \o Seg(<<>>) \o Seg(<<"f">>)

Url(scheme, host, path) == scheme \o <<":", "/", "/">> \o host \o path
A_hdfs_n_x == Url(HDFS_value, <<"n">>, Seg(<<"d">>) \o Seg(<<"x">>))
A_hdfs_n_y == Url(HDFS_value, <<"n">>, Seg(<<"d">>) \o Seg(<<"y">>))
A_lavafs_n_x == Url(LAVAFS_value, <<"n">>, Seg(<<"d">>) \o Seg(<<"x">>))
A_hdfs_m_x == Url(HDFS_value, <<"m">>, Seg(<<"d">>) \o Seg(<<"x">>))
A_file_x == LOCAL_value \o <<":">> \o Seg(<<"d">>) \o Seg(<<"x">>)
A_file_y == LOCAL_value \o <<":">> \o Seg(<<"d">>) \o Seg(<<"y">>)
A_s3_n_x == Url(<<"s", "3">>, <<"n">>, Seg(<<"d">>) \o Seg(<<"x">>))
A_hdfs_noauthority == Url(HDFS_value, <<>>, Seg(<<"d">>) \o Seg(<<"x">>))

L_hdfs_n == Url(HDFS_value, <<"n">>, Seg(<<"d">>))
L_lavafs_n == Url(LAVAFS_value, <<"n">>, Seg(<<"d">>))
L_hdfs_m == Url(HDFS_value, <<"m">>, Seg(<<"d">>))
L_file == LOCAL_value \o <<":">> \o Seg(<<"d">>)
\* the same locations, written with a final "/"
L_hdfs_n_slash == L_hdfs_n \o <<"/">>
L_lavafs_n_slash == L_lavafs_n \o <<"/">>
L_file_slash == L_file \o <<"/">>

\* what get_fileset_context may answer: the fileset's storage location and
\* the ordered actual paths
Resp(location, paths) == [location |-> location, actual_paths |-> paths]

\* the paths a backend ls/info may name
Entries == {Seg(<<"d">>) \o Seg(<<"x">>) \o Seg(<<"d">>), Seg(<<"e">>)}

\* Four scenarios share the actions.
\*   "cache":  two callers on one facade, one verb, two catalogs, two backends
\*   "policy": one caller, one verb, three catalogs, every backend, every
\*             cache option
\*   "facade": one caller, every verb and every virtual path, an LRU cache
\*   "translate": one caller, ls and info, every storage type and location
\*   "fair":   MaxFairCallers callers on one facade calling for ever, one
\*             verb, one catalog, one backend
\*   "instances": one caller, one verb, two backends, one facade after another
\*             in the same process
ThreadNo == [t \in Threads |-> IF t = "t1" THEN 1 ELSE IF t = "t2" THEN 2 ELSE 3]
ActiveThreads(sc) ==
    IF sc = "fair" THEN {t \in Threads : ThreadNo[t] <= MaxFairCallers}
    ELSE IF sc = "cache" THEN {"t1", "t2"}
    ELSE {"t1"}
\* a counter after one more call, load or open; the callers of "fair" call
\* for ever and are not counted
Counted(sc, n) == IF sc = "fair" THEN n ELSE n + 1
CallBudget(sc) ==
    IF sc = "facade" THEN MaxFacadeCalls ELSE IF sc = "cache" THEN MaxCacheCalls ELSE MaxCalls

SingleVerbs ==
    {"ls", "info", "exists", "rm", "rm_file", "rmdir", "mkdir", "makedirs",
     "created", "modified", "cat_file"}
TwoPathVerbs == {"cp_file", "mv"}
OpenModes == {<<"r", "b">>, <<"w", "b">>, <<"a", "b">>}
LocalPaths == {Seg(<<"l">>), LOCAL_value \o <<":">> \o Seg(<<"l">>), Url(HDFS_value, <<"n">>, Seg(<<"l">>))}
AllVPaths ==
    {V_c_s_f_a, V_gvfs_c_s_f_b, V_c_s_g, V_d_s_f_a, V_e_s_f_slash,
     I_c_s, I_nofileset, I_empty_segment}

\* the paths _extract_identifier is tried on: fileset, x or nothing, then up
\* to four names, empty ones among them, then "/" or nothing; and None
Names == {<<>>, <<"c">>, <<"s", "t">>}
NameLists == UNION {[1..n -> Names] : n \in 0..4}
RECURSIVE JoinFrom(_, _)
JoinFrom(l, i) == IF i > Len(l) THEN <<>> ELSE <<"/">> \o l[i] \o JoinFrom(l, i + 1)
ExtractPaths ==
    {h \o JoinFrom(l, 1) \o e :
        h \in {fileset_word, <<"x">>, <<>>}, l \in NameLists, e \in {<<>>, <<"/">>}}
        \cup {None}

CallOf(verb, p1, p2, arg) == [verb |-> verb, p1 |-> p1, p2 |-> p2, arg |-> arg]

CacheCalls == {CallOf("exists", p, <<>>, <<>>) : p \in {V_c_s_f_a, V_d_s_f_a}}
PolicyCalls ==
    {CallOf("exists", p, <<>>, <<>>) : p \in {V_c_s_f_a, V_d_s_f_a, V_e_s_f_slash}}
FacadeCalls ==
    {CallOf(v, p, <<>>, <<>>) : v \in SingleVerbs, p \in AllVPaths}
        \cup {CallOf(v, p, q, <<>>) : v \in TwoPathVerbs, p \in AllVPaths, q \in AllVPaths}
        \cup {CallOf("open", p, <<>>, m) : p \in AllVPaths, m \in OpenModes}
        \cup {CallOf("get_file", p, <<>>, l) : p \in AllVPaths, l \in LocalPaths}
TranslateCalls ==
    {CallOf(v, p, <<>>, <<>>) : v \in {"ls", "info"}, p \in {V_c_s_f_a, V_gvfs_c_s_f_b, V_d_s_f_a}}
FairCalls == {CallOf("exists", V_c_s_f_a, <<>>, <<>>)}
Calls(sc) ==
    IF sc \in {"cache", "instances"} THEN CacheCalls
    ELSE IF sc = "fair" THEN FairCalls
    ELSE IF sc = "policy" THEN PolicyCalls
    ELSE IF sc = "translate" THEN TranslateCalls
    ELSE FacadeCalls

CacheResponses == {Resp(L_hdfs_n, <<A_hdfs_n_x>>), Resp(L_hdfs_m, <<A_hdfs_m_x>>)}
PolicyResponses ==
    {Resp(L_hdfs_n, <<A_hdfs_n_x>>), Resp(L_hdfs_n, <<A_hdfs_n_y>>),
     Resp(L_lavafs_n, <<A_lavafs_n_x>>), Resp(L_hdfs_m, <<A_hdfs_m_x>>),
     Resp(L_file, <<A_file_x>>), Resp(L_file, <<A_file_y, A_hdfs_n_x>>)}
FacadeResponses ==
    {Resp(L_hdfs_n, <<A_hdfs_n_x>>), Resp(L_file, <<A_file_x>>),
     Resp(L_hdfs_n, <<A_s3_n_x>>), Resp(L_hdfs_n, <<A_hdfs_noauthority>>)}
TranslateResponses ==
    {Resp(L_hdfs_n, <<A_hdfs_n_x>>), Resp(L_hdfs_n_slash, <<A_hdfs_n_x>>),
     Resp(L_lavafs_n, <<A_lavafs_n_x>>), Resp(L_lavafs_n_slash, <<A_lavafs_n_x>>),
     Resp(L_file, <<A_file_x>>), Resp(L_file_slash, <<A_file_x>>)}
FairResponses == {Resp(L_hdfs_n, <<A_hdfs_n_x>>)}
Responses(sc) ==
    IF sc \in {"cache", "instances"} THEN CacheResponses
    ELSE IF sc = "fair" THEN FairResponses
    ELSE IF sc = "policy" THEN PolicyResponses
    ELSE IF sc = "translate" THEN TranslateResponses
    ELSE FacadeResponses

\* (cache size, cache expired time) options
CacheOptions == {<<0, -1>>, <<1, 0>>, <<1, -1>>, <<1, 1>>}
PolicyOptions == {<<0, -1>>, <<0, 1>>, <<1, 0>>, <<-1, -1>>, <<1, -1>>, <<2, -1>>, <<2, 1>>}
FacadeOptions == {<<0, -1>>, <<1, 0>>, <<-1, 0>>, <<1, -1>>}
TranslateOptions == {<<0, -1>>, <<2, -1>>}
FairOptions == {<<1, -1>>}
Options(sc) ==
    IF sc \in {"cache", "instances"} THEN CacheOptions
    ELSE IF sc = "fair" THEN FairOptions
    ELSE IF sc = "policy" THEN PolicyOptions
    ELSE IF sc = "translate" THEN TranslateOptions
    ELSE FacadeOptions

\* every key the two caches can hold
CatKeys ==
    {CatalogIdent(_extract_identifier(_pre_process_path(p).v).v) :
        p \in {q \in AllVPaths :
                 _pre_process_path(q).ok /\ _extract_identifier(_pre_process_path(q).v).ok}}
AllActualPaths ==
    UNION {{r.actual_paths[i] : i \in 1..Len(r.actual_paths)} :
             r \in CacheResponses \cup PolicyResponses \cup FacadeResponses
                     \cup TranslateResponses}
FsKeys ==
    {_parse_storage_host_path(a).v :
        a \in {b \in AllActualPaths : _parse_storage_host_path(b).ok}}

(***************************************************************************)
(* State.                                                                  *)
(***************************************************************************)
VARIABLES
    scenario,              \* which inputs the callers draw from (fixed by Init)
    state,                 \* "new", "ready" (constructed) or "failed" (__init__ raised)
    created,               \* the attributes __init__ has created
    cache_size,            \* the two options __init__ reads
    cache_expired_time,
    _cache,                \* backend handles, by storage host path
    _cache_lock,
    _catalog_cache,        \* catalog handles, by catalog identifier
    _catalog_cache_lock,
    _hadoop_classpath,     \* "None" until _init_hadoop_classpath has set it
    environ,               \* os.environ["CLASSPATH"]: the hadoop classpaths appended to it
    now,                   \* the timer of the TTLCache
    pc,                    \* where each caller is
    fr,                    \* each caller's frame: arguments and locals of its call
    ncalls,                \* calls made so far
    nloads,                \* catalogs loaded so far (the last one's identity)
    nopens,                \* backend handles opened so far (the last one's identity)
    catFresh,              \* per catalog key: loads since the key was last out of the cache
    fsFresh                \* per backend key: opens since the key was last out of the cache

vars ==
    <<scenario, state, created, cache_size, cache_expired_time, _cache, _cache_lock,
      _catalog_cache, _catalog_cache_lock, _hadoop_classpath, environ, now, pc, fr, ncalls,
      nloads, nopens, catFresh, fsFresh>>

NoCat == [id |-> 0, ident |-> <<>>]
NoFs == [id |-> 0, kind |-> "", uri |-> <<>>, at |-> 0]
NoCtx ==
    [serial |-> 0, op |-> "", ident |-> <<>>, sub_path |-> <<>>, location |-> <<>>,
     actual_paths |-> <<>>, fss |-> <<>>]
NoOp == [method |-> "", fs |-> NoFs, args |-> <<>>, flags |-> FALSE]

EmptyFrame ==
    [verb |-> "", p1 |-> <<>>, p2 |-> <<>>, arg |-> <<>>, paths |-> <<>>, callno |-> 0,
     catMiss |-> FALSE, catLost |-> FALSE, fsMiss |-> {}, fsLost |-> {},
     stage |-> 0, vpath |-> <<>>, ident |-> <<>>, cat |-> NoCat, ccval |-> NoCat,
     ctxs |-> <<>>, cur |-> NoCtx, i |-> 0, key |-> <<>>, stype |-> "", fcval |-> NoFs,
     exc |-> "", eff |-> {}, result |-> "", op |-> NoOp, entries |-> <<>>, out |-> <<>>]

\* rwlock.RWLockFair: c_lock_read is held by a writer from its request to its
\* release and by a reader while it enters; c_lock_write by the writer, or by
\* the readers as a group
FreeLock == [read_holder |-> NoThread, readers |-> {}, writer |-> NoThread]

InitWith(sc) ==
    /\ scenario = sc
    /\ state = "new"
    /\ created = {}
    /\ cache_size = 0
    /\ cache_expired_time = 0
    /\ _cache = <<>>
    /\ _cache_lock = FreeLock
    /\ _catalog_cache = <<>>
    /\ _catalog_cache_lock = FreeLock
    /\ _hadoop_classpath = "None"
    /\ environ = 0
    /\ now = 0
    /\ pc = [t \in Threads |-> "idle"]
    /\ fr = [t \in Threads |-> EmptyFrame]
    /\ ncalls = 0 /\ nloads = 0 /\ nopens = 0
    /\ catFresh = [k \in CatKeys |-> 0]
    /\ fsFresh = [k \in FsKeys |-> 0]

Init == InitWith("cache")
InitPolicy == InitWith("policy")
InitFacade == InitWith("facade")
InitTranslate == InitWith("translate")
InitExtract == InitWith("extract")
InitInstances == InitWith("instances")
InitFair == InitWith("fair")

(***************************************************************************)
(* __init__, lines 131-152: the cache options.                             *)
(***************************************************************************)
\* asserts that let a capacity of 0 through
OptionsAccepted_zero(size, expired_time) == expired_time # 0 /\ size >= 0

\* the two assert statements
OptionsAccepted(size, expired_time) == expired_time # 0 /\ size > 0

Construct ==
    /\ state = "new"
    /\ \E o \in Options(scenario) :
       LET size == o[1]
           expired_time == o[2]
       IN
       /\ cache_size' = size
       /\ cache_expired_time' = expired_time
       /\ IF OptionsAccepted(size, expired_time)
          THEN /\ state' = "ready"
               /\ created' = {"_cache", "_cache_lock", "_catalog_cache", "_catalog_cache_lock"}
          ELSE /\ state' = "failed"
               /\ UNCHANGED created
    /\ UNCHANGED <<scenario, _cache, _cache_lock, _catalog_cache, _catalog_cache_lock,
                   _hadoop_classpath, environ, now, pc, fr, ncalls, nloads, nopens, catFresh, fsFresh>>

\* LRUCache when cache_expired_time < 0, TTLCache otherwise
IsTTL == cache_expired_time > 0

(***************************************************************************)
(* Steps a caller takes on its own (no shared state): where it goes next.  *)
(***************************************************************************)
Goto(label, f) == [pc |-> label, f |-> f]
Done(f, res) == Goto("done", [f EXCEPT !.result = res])

VerbOp(verb, arg) ==
    CASE verb = "ls" -> "LIST_STATUS"
      [] verb = "info" -> "GET_FILE_STATUS"
      [] verb = "exists" -> "EXISTS"
      [] verb = "cp_file" -> "COPY_FILE"
      [] verb = "mv" -> "RENAME"
      [] verb \in {"rm", "rm_file", "rmdir"} -> "DELETE"
      [] verb = "open" ->
            IF StartsWith(arg, <<"w">>) THEN "CREATE"
            ELSE IF StartsWith(arg, <<"a">>) THEN "APPEND"
            ELSE "OPEN"
      [] verb \in {"mkdir", "makedirs"} -> "MKDIRS"
      [] verb = "created" -> "CREATED_TIME"
      [] verb = "modified" -> "MODIFIED_TIME"
      [] verb = "cat_file" -> "CAT_FILE"
      [] verb = "get_file" -> "GET_FILE"

\* a guard that compares catalog and schema only
IdentifiersDiffer_schema(src_identifier, dst_identifier) ==
    SubSeq(src_identifier, 1, 3) # SubSeq(dst_identifier, 1, 3)

\* cp_file, mv: src_identifier != dst_identifier
IdentifiersDiffer(src_identifier, dst_identifier) == src_identifier # dst_identifier

\* what a verb does before its first _get_fileset_context: the paths it will
\* resolve, or the error it raises
Validate(c) ==
    IF c.verb \in TwoPathVerbs
    THEN LET src == _pre_process_path(c.p1)
             dst == _pre_process_path(c.p2)
         IN  IF ~src.ok THEN Raise(src.err)
             ELSE IF ~dst.ok THEN Raise(dst.err)
             ELSE IF ~_extract_identifier(src.v).ok THEN Raise("InvalidPath")
             ELSE IF ~_extract_identifier(dst.v).ok THEN Raise("InvalidPath")
             ELSE IF IdentifiersDiffer(_extract_identifier(src.v).v,
                                       _extract_identifier(dst.v).v)
                  THEN Raise("CrossFileset")
             ELSE Ret(<<src.v, dst.v>>)
    ELSE IF /\ c.verb = "get_file"
            /\ ~StartsWith(c.arg, LOCAL_value \o <<":">>)
            /\ ~StartsWith(c.arg, <<"/">>)
         THEN Raise("RemoteToRemote")
    ELSE Ret(<<c.p1>>)

\* _get_fileset_context, lines 587-592: up to the catalog lookup
EnterContext(f, stage) ==
    LET virtual_path == _pre_process_path(f.paths[stage])
    IN  IF ~virtual_path.ok THEN Done(f, virtual_path.err)
        ELSE IF ~_extract_identifier(virtual_path.v).ok THEN Done(f, "InvalidPath")
        ELSE Goto("c_racq",
                  [f EXCEPT !.stage = stage,
                            !.vpath = virtual_path.v,
                            !.ident = _extract_identifier(virtual_path.v).v,
                            !.cat = NoCat, !.ccval = NoCat,
                            !.catMiss = FALSE, !.catLost = FALSE])

\* _get_filesystem, lines 885-887: up to the cache lookup, for actual path i
EnterFs(f, i) ==
    LET actual_path == f.cur.actual_paths[i]
    IN  IF ~_recognize_storage_type(actual_path).ok
        THEN Done(f, _recognize_storage_type(actual_path).err)
        ELSE IF ~_parse_storage_host_path(actual_path).ok
        THEN Done(f, _parse_storage_host_path(actual_path).err)
        ELSE Goto("f_racq",
                  [f EXCEPT !.i = i,
                            !.key = _parse_storage_host_path(actual_path).v,
                            !.stype = _recognize_storage_type(actual_path).v,
                            !.fcval = NoFs])

\* _get_filesystem has returned handle: the next actual path, or the context
\* pair is complete and the verb goes on
AfterFs(f, handle) ==
    LET f1 == [f EXCEPT !.cur.fss = Append(@, handle), !.fcval = NoFs]
    IN  IF f.i < Len(f.cur.actual_paths) THEN EnterFs(f1, f.i + 1)
        ELSE LET f2 == [f1 EXCEPT !.ctxs = Append(@, f1.cur), !.cur = NoCtx,
                                  !.i = 0, !.key = <<>>, !.stype = ""]
             IN  IF f.verb \in TwoPathVerbs /\ f.stage = 1
                 THEN EnterContext(f2, 2)
                 ELSE Goto("delegate", f2)

(***************************************************************************)
(* The public verbs, up to their first _get_fileset_context.               *)
(***************************************************************************)
Step(t, g) ==
    /\ pc' = [pc EXCEPT ![t] = g.pc]
    /\ fr' = [fr EXCEPT ![t] = g.f]

Did(f, what) == [f EXCEPT !.eff = @ \cup {what}]

\* the loads behind the entry of each key, after key k was inserted and the
\* keys in dropped were thrown out
Fresh(fresh, k, dropped) ==
    [j \in DOMAIN fresh |->
        IF j = k THEN (IF k \in dropped THEN 0 ELSE fresh[k]) + 1
        ELSE IF j \in dropped THEN 0
        ELSE fresh[j]]

\* the backend handles a frame holds
HeldFs(f) ==
    {f.fcval.id} \cup {f.cur.fss[j].id : j \in 1..Len(f.cur.fss)}
        \cup UNION {{f.ctxs[n].fss[j].id : j \in 1..Len(f.ctxs[n].fss)} : n \in 1..Len(f.ctxs)}

\* a frame, once the catalog keys in dropped have left the cache
CatLose(f, dropped) ==
    IF (f.cat # NoCat \/ f.ccval # NoCat) /\ CatalogIdent(f.ident) \in dropped
    THEN [f EXCEPT !.catLost = TRUE]
    ELSE f

\* a frame, once the backend handles in ids have left the cache
FsLose(f, ids) == [f EXCEPT !.fsLost = @ \cup (ids \cap (HeldFs(f) \ {0}))]

Call(t) ==
    /\ state = "ready"
    /\ t \in ActiveThreads(scenario)
    /\ pc[t] = "idle"
    /\ ncalls < CallBudget(scenario)
    /\ ncalls' = Counted(scenario, ncalls)
    /\ \E c \in Calls(scenario) :
       LET f0 == [EmptyFrame EXCEPT !.verb = c.verb, !.p1 = c.p1, !.p2 = c.p2,
                                    !.arg = c.arg, !.callno = ncalls + 1]
       IN  Step(t, IF Validate(c).ok
                   THEN EnterContext([f0 EXCEPT !.paths = Validate(c).v], 1)
                   ELSE Done(f0, Validate(c).err))
    /\ UNCHANGED <<scenario, state, created, cache_size, cache_expired_time, _cache,
                   _cache_lock, _catalog_cache, _catalog_cache_lock, _hadoop_classpath, environ,
                   now, nloads, nopens, catFresh,
                   fsFresh>>

(***************************************************************************)
(* _get_fileset_catalog, lines 858-882.                                    *)
(***************************************************************************)
\* no second lookup: whoever missed under the read lock loads
SecondLookup_none(c, k, ttl, t, none) == none

\* the lookup repeated under the write lock (lines 873-877 and 901-905)
SecondLookup(c, k, ttl, t, none) == CacheGet(c, k, ttl, t, none)

\* RWLockFair: a reader passes c_lock_read on its way in, and a writer keeps
\* c_lock_read from its request to its release
ReaderMayEnter(lock) == lock.read_holder = NoThread

\* a reader that keeps the shared lock when it is done
ReaderLeaves_stays(lock, t) == lock

\* the release of the shared lock
ReaderLeaves(lock, t) == [lock EXCEPT !.readers = @ \ {t}]

\* a writer that gives back the exclusive part and keeps c_lock_read
WriterLeaves_half(lock) == [lock EXCEPT !.writer = NoThread]

\* the release of the exclusive lock, in the finally of lines 881-882 and
\* 922-923
WriterLeaves(lock) == [lock EXCEPT !.writer = NoThread, !.read_holder = NoThread]

CatUnchanged ==
    UNCHANGED <<scenario, state, created, cache_size, cache_expired_time, _cache,
                _cache_lock, _hadoop_classpath, environ, now, ncalls, nopens, fsFresh>>

CatRAcq(t) ==
    /\ pc[t] = "c_racq"
    /\ ReaderMayEnter(_catalog_cache_lock)
    /\ _catalog_cache_lock' = [_catalog_cache_lock EXCEPT !.readers = @ \cup {t}]
    /\ Step(t, Goto("c_rget", fr[t]))
    /\ UNCHANGED <<_catalog_cache, nloads, catFresh>>
    /\ CatUnchanged

CatRGet(t) ==
    /\ pc[t] = "c_rget"
    /\ LET k == CatalogIdent(fr[t].ident)
       IN  /\ _catalog_cache' = CacheTouch(_catalog_cache, k, -1, now)
           /\ Step(t, Goto("c_rrel",
                           Did([fr[t] EXCEPT !.ccval = CacheGet(_catalog_cache, k, -1, now, NoCat)],
                               "catalog_lookup")))
    /\ UNCHANGED <<_catalog_cache_lock, nloads, catFresh>>
    /\ CatUnchanged

CatRRel(t) ==
    /\ pc[t] = "c_rrel"
    /\ _catalog_cache_lock' = ReaderLeaves(_catalog_cache_lock, t)
    /\ Step(t, IF fr[t].ccval # NoCat
               THEN Goto("resolve", [fr[t] EXCEPT !.cat = fr[t].ccval])
               ELSE Goto("c_wreq", [fr[t] EXCEPT !.catMiss = TRUE]))
    /\ UNCHANGED <<_catalog_cache, nloads, catFresh>>
    /\ CatUnchanged

CatWReq(t) ==
    /\ pc[t] = "c_wreq"
    /\ _catalog_cache_lock.read_holder = NoThread
    /\ _catalog_cache_lock' = [_catalog_cache_lock EXCEPT !.read_holder = t]
    /\ Step(t, Goto("c_wacq", fr[t]))
    /\ UNCHANGED <<_catalog_cache, nloads, catFresh>>
    /\ CatUnchanged

CatWAcq(t) ==
    /\ pc[t] = "c_wacq"
    /\ _catalog_cache_lock.readers = {}
    /\ _catalog_cache_lock.writer = NoThread
    /\ _catalog_cache_lock' = [_catalog_cache_lock EXCEPT !.writer = t]
    /\ Step(t, Goto("c_wget", fr[t]))
    /\ UNCHANGED <<_catalog_cache, nloads, catFresh>>
    /\ CatUnchanged

CatWGet(t) ==
    /\ pc[t] = "c_wget"
    /\ LET k == CatalogIdent(fr[t].ident)
           cache_value == SecondLookup(_catalog_cache, k, -1, now, NoCat)
       IN  /\ _catalog_cache' =
                IF cache_value # NoCat THEN CacheTouch(_catalog_cache, k, -1, now)
                ELSE _catalog_cache
           /\ Step(t, IF cache_value # NoCat
                      THEN Goto("c_wrel", [fr[t] EXCEPT !.ccval = cache_value])
                      ELSE Goto("c_load", fr[t]))
    /\ UNCHANGED <<_catalog_cache_lock, nloads, catFresh>>
    /\ CatUnchanged

\* a loader that leaves an entry behind when load_catalog raises
CatalogCacheAfterLoad_partial(c, k, catalog, loaded, maxsize, t) ==
    CacheSet(c, k, IF loaded THEN catalog ELSE [id |-> 0, ident |-> k], maxsize, -1, t)

\* lines 878-879: the insert follows load_catalog, so a load that raises
\* leaves the cache as it was
CatalogCacheAfterLoad(c, k, catalog, loaded, maxsize, t) ==
    IF loaded THEN CacheSet(c, k, catalog, maxsize, -1, t) ELSE c

\* self._client.load_catalog(catalog_ident), then the insert
CatLoad(t) ==
    /\ pc[t] = "c_load"
    /\ \E loaded \in BOOLEAN :
       LET k == CatalogIdent(fr[t].ident)
           catalog == [id |-> nloads + 1, ident |-> k]
           dropped == CacheDropped(_catalog_cache, k, CatalogCacheMaxSize, -1, now)
       IN  IF loaded
           THEN /\ _catalog_cache' =
                     CatalogCacheAfterLoad(_catalog_cache, k, catalog, TRUE,
                                           CatalogCacheMaxSize, now)
                /\ nloads' = Counted(scenario, nloads)
                /\ catFresh' = Fresh(catFresh, k, dropped)
                /\ pc' = [pc EXCEPT ![t] = "c_wrel"]
                /\ fr' = [u \in Threads |->
                            IF u = t THEN Did([fr[t] EXCEPT !.ccval = catalog], "load")
                            ELSE CatLose(fr[u], dropped)]
           ELSE /\ Step(t, Goto("c_wrel", Did([fr[t] EXCEPT !.exc = "LoadFailed"], "load")))
                /\ _catalog_cache' =
                     CatalogCacheAfterLoad(_catalog_cache, k, catalog, FALSE,
                                           CatalogCacheMaxSize, now)
                /\ UNCHANGED <<nloads, catFresh>>
    /\ UNCHANGED _catalog_cache_lock
    /\ CatUnchanged

CatWRel(t) ==
    /\ pc[t] = "c_wrel"
    /\ _catalog_cache_lock' = WriterLeaves(_catalog_cache_lock)
    /\ Step(t, IF fr[t].exc # "" THEN Done(fr[t], fr[t].exc)
               ELSE Goto("resolve", [fr[t] EXCEPT !.cat = fr[t].ccval]))
    /\ UNCHANGED <<_catalog_cache, nloads, catFresh>>
    /\ CatUnchanged

(***************************************************************************)
(* _get_fileset_context, lines 597-618: the request to the metadata        *)
(* service, then one _get_filesystem per actual path.                      *)
(***************************************************************************)
\* a call that keeps working with the first context it holds
ContextUsed_held(answered, held) == IF held # <<>> THEN held[1] ELSE answered

\* the context a call works with: the one its request was answered with,
\* whatever contexts the call holds already
ContextUsed(answered, held) == answered

Resolve(t) ==
    /\ pc[t] = "resolve"
    /\ \E r \in Responses(scenario) :
       LET f == fr[t]
           context ==
               [serial |-> 2 * f.callno + f.stage,
                op |-> VerbOp(f.verb, f.arg),
                ident |-> f.ident,
                sub_path |-> DropPrefix(f.vpath, Len(_get_virtual_location(f.ident))),
                location |-> r.location,
                actual_paths |-> r.actual_paths,
                fss |-> <<>>]
       IN  Step(t, EnterFs(Did([f EXCEPT !.cur = ContextUsed(context, f.ctxs)], "resolve"), 1))
    /\ UNCHANGED <<scenario, state, created, cache_size, cache_expired_time, _cache,
                   _cache_lock, _catalog_cache, _catalog_cache_lock, _hadoop_classpath, environ,
                   now, ncalls, nloads, nopens, catFresh, fsFresh>>

(***************************************************************************)
(* _get_filesystem, lines 884-923.                                         *)
(***************************************************************************)
FsUnchanged ==
    UNCHANGED <<scenario, state, created, cache_size, cache_expired_time, _catalog_cache,
                _catalog_cache_lock, now, ncalls, nloads, catFresh>>

FsRAcq(t) ==
    /\ pc[t] = "f_racq"
    /\ ReaderMayEnter(_cache_lock)
    /\ _cache_lock' = [_cache_lock EXCEPT !.readers = @ \cup {t}]
    /\ Step(t, Goto("f_rget", fr[t]))
    /\ UNCHANGED <<_cache, _hadoop_classpath, environ, nopens, fsFresh>>
    /\ FsUnchanged

FsRGet(t) ==
    /\ pc[t] = "f_rget"
    /\ _cache' = CacheTouch(_cache, fr[t].key, cache_expired_time, now)
    /\ Step(t, Goto("f_rrel",
                    Did([fr[t] EXCEPT !.fcval =
                            CacheGet(_cache, fr[t].key, cache_expired_time, now, NoFs)],
                        "fs_lookup")))
    /\ UNCHANGED <<_cache_lock, _hadoop_classpath, environ, nopens, fsFresh>>
    /\ FsUnchanged

FsRRel(t) ==
    /\ pc[t] = "f_rrel"
    /\ _cache_lock' = ReaderLeaves(_cache_lock, t)
    /\ Step(t, IF fr[t].fcval # NoFs THEN AfterFs(fr[t], fr[t].fcval)
               ELSE Goto("f_wreq", fr[t]))
    /\ UNCHANGED <<_cache, _hadoop_classpath, environ, nopens, fsFresh>>
    /\ FsUnchanged

FsWReq(t) ==
    /\ pc[t] = "f_wreq"
    /\ _cache_lock.read_holder = NoThread
    /\ _cache_lock' = [_cache_lock EXCEPT !.read_holder = t]
    /\ Step(t, Goto("f_wacq", fr[t]))
    /\ UNCHANGED <<_cache, _hadoop_classpath, environ, nopens, fsFresh>>
    /\ FsUnchanged

FsWAcq(t) ==
    /\ pc[t] = "f_wacq"
    /\ _cache_lock.readers = {}
    /\ _cache_lock.writer = NoThread
    /\ _cache_lock' = [_cache_lock EXCEPT !.writer = t]
    /\ Step(t, Goto("f_wget", fr[t]))
    /\ UNCHANGED <<_cache, _hadoop_classpath, environ, nopens, fsFresh>>
    /\ FsUnchanged

\* a bootstrap before every open of a distributed backend, flag or no flag
BootstrapNeeded_always(storage_type, hadoop_classpath) ==
    storage_type \in {"HDFS", "LAVAFS"}

\* lines 906-913: whether the open is preceded by _init_hadoop_classpath
BootstrapNeeded(storage_type, hadoop_classpath) ==
    storage_type \in {"HDFS", "LAVAFS"} /\ hadoop_classpath = "None"

FsWGet(t) ==
    /\ pc[t] = "f_wget"
    /\ LET cache_value == SecondLookup(_cache, fr[t].key, cache_expired_time, now, NoFs)
       IN  /\ _cache' =
                IF cache_value # NoFs
                THEN CacheTouch(_cache, fr[t].key, cache_expired_time, now)
                ELSE _cache
           /\ Step(t, IF cache_value # NoFs
                      THEN Goto("f_wrel", [fr[t] EXCEPT !.fcval = cache_value,
                                                        !.fsMiss = @ \cup {cache_value.id}])
                      ELSE IF BootstrapNeeded(fr[t].stype, _hadoop_classpath)
                      THEN Goto("f_boot", fr[t])
                      ELSE Goto("f_open", fr[t]))
    /\ UNCHANGED <<_cache_lock, _hadoop_classpath, environ, nopens, fsFresh>>
    /\ FsUnchanged

\* a bootstrap that sets the attribute before it can fail
ClasspathAfter_early(before, succeeded) == "set"

\* _init_hadoop_classpath, lines 798-856: line 848 sets the attribute, every
\* other way out raises
ClasspathAfter(before, succeeded) == IF succeeded THEN "set" ELSE before

\* lines 844-847: CLASSPATH gets the hadoop classpath appended, just before
\* the attribute is set
EnvironAfter(before, succeeded) == IF succeeded THEN before + 1 ELSE before

FsBoot(t) ==
    /\ pc[t] = "f_boot"
    /\ \E succeeded \in BOOLEAN :
         /\ _hadoop_classpath' = ClasspathAfter(_hadoop_classpath, succeeded)
         /\ environ' = EnvironAfter(environ, succeeded)
         /\ IF succeeded
            THEN Step(t, Goto("f_open", Did(fr[t], "bootstrap")))
            ELSE Step(t, Goto("f_wrel", Did([fr[t] EXCEPT !.exc = "BootstrapFailed"],
                                            "bootstrap")))
    /\ UNCHANGED <<_cache, _cache_lock, nopens, fsFresh>>
    /\ FsUnchanged

\* what is inserted once the handle is there (line 920)
CacheAfterOpen(c, k, fs, maxsize, ttl, t) == CacheSet(c, k, fs, maxsize, ttl, t)

\* ArrowFSWrapper(HadoopFileSystem.from_uri(actual_path)) or LocalFileSystem(),
\* then the insert
FsOpen(t) ==
    /\ pc[t] = "f_open"
    /\ \E opened \in (IF fr[t].stype = "LOCAL" THEN {TRUE} ELSE BOOLEAN) :
       LET k == fr[t].key
           fs == [id |-> nopens + 1,
                  kind |-> IF fr[t].stype = "LOCAL" THEN "local" ELSE "hadoop",
                  uri |-> IF fr[t].stype = "LOCAL" THEN <<>>
                          ELSE fr[t].cur.actual_paths[fr[t].i],
                  at |-> now]
           dropped == CacheDropped(_cache, k, cache_size, cache_expired_time, now)
           droppedIds == {_cache[j].val.id : j \in {n \in 1..Len(_cache) : _cache[n].key \in dropped}}
       IN  IF opened
           THEN /\ _cache' = CacheAfterOpen(_cache, k, fs, cache_size, cache_expired_time, now)
                /\ nopens' = Counted(scenario, nopens)
                /\ fsFresh' = Fresh(fsFresh, k, dropped)
                /\ pc' = [pc EXCEPT ![t] = "f_wrel"]
                /\ fr' = [u \in Threads |->
                            IF u = t
                            THEN Did([FsLose(fr[t], droppedIds) EXCEPT
                                         !.fcval = fs, !.fsMiss = @ \cup {fs.id}], "open")
                            ELSE FsLose(fr[u], droppedIds)]
           ELSE /\ Step(t, Goto("f_wrel", Did([fr[t] EXCEPT !.exc = "OpenFailed"], "open")))
                /\ UNCHANGED <<_cache, nopens, fsFresh>>
    /\ UNCHANGED <<_cache_lock, _hadoop_classpath, environ>>
    /\ FsUnchanged

FsWRel(t) ==
    /\ pc[t] = "f_wrel"
    /\ _cache_lock' = WriterLeaves(_cache_lock)
    /\ Step(t, IF fr[t].exc # "" THEN Done(fr[t], fr[t].exc)
               ELSE AfterFs(fr[t], fr[t].fcval))
    /\ UNCHANGED <<_cache, _hadoop_classpath, environ, nopens, fsFresh>>
    /\ FsUnchanged

(***************************************************************************)
(* The public verbs, after _get_fileset_context: the call on the backend   *)
(* handle of the first actual path.                                        *)
(***************************************************************************)
\* what the backend's ls (any number of entries) or info (one) may answer
EntryLists == {<<>>} \cup {<<e>> : e \in Entries}

Delegate(t) ==
    /\ pc[t] = "delegate"
    /\ \E entries \in (IF fr[t].verb = "ls" THEN EntryLists
                       ELSE IF fr[t].verb = "info" THEN EntryLists \ {<<>>}
                       ELSE {<<>>}) :
       LET f == fr[t]
           src == f.ctxs[1]
           actual_path == src.actual_paths[1]
           storage_type == _recognize_storage_type(actual_path).v
           stripped == _strip_storage_protocol(storage_type, actual_path)
           Invoke(method, args, flags) ==
               Did([f EXCEPT !.op = [method |-> method, fs |-> src.fss[1],
                                     args |-> args, flags |-> flags],
                             !.entries = entries], "op")
           converted ==
               [j \in 1..Len(entries) |->
                   _convert_actual_path(entries[j], src.location, storage_type, f.ident)]
       IN  Step(t,
             CASE f.verb \in TwoPathVerbs ->
                    Done(Invoke(f.verb,
                                <<stripped,
                                  _strip_storage_protocol(storage_type,
                                                          f.ctxs[2].actual_paths[1])>>,
                                f.verb = "mv" /\ storage_type = "LOCAL"),
                         "ok")
               [] f.verb = "created" ->
                    IF storage_type = "LOCAL"
                    THEN Done(Invoke("created", <<stripped>>, FALSE), "ok")
                    ELSE Done(f, "UnsupportedOperation")
               [] f.verb \in {"ls", "info"} ->
                    IF \E j \in 1..Len(entries) : ~converted[j].ok
                    THEN Done(Invoke(f.verb, <<stripped>>, FALSE), "InvalidPath")
                    ELSE Done([Invoke(f.verb, <<stripped>>, FALSE) EXCEPT
                                  !.out = [j \in 1..Len(entries) |-> converted[j].v]],
                              "ok")
               [] f.verb = "get_file" ->
                    Done(Invoke("get_file", <<stripped, f.arg>>, FALSE), "ok")
               [] OTHER -> Done(Invoke(f.verb, <<stripped>>, FALSE), "ok"))
    /\ UNCHANGED <<scenario, state, created, cache_size, cache_expired_time, _cache,
                   _cache_lock, _catalog_cache, _catalog_cache_lock, _hadoop_classpath, environ,
                   now, ncalls, nloads, nopens, catFresh, fsFresh>>

\* _extract_identifier called on a path of its own, lines 620-637
Extract(t) ==
    /\ state = "ready"
    /\ scenario = "extract"
    /\ pc[t] = "idle"
    /\ t \in ActiveThreads(scenario)
    /\ ncalls < CallBudget(scenario)
    /\ ncalls' = ncalls + 1
    /\ \E path \in ExtractPaths :
       LET f0 == [EmptyFrame EXCEPT !.verb = "_extract_identifier", !.p1 = path,
                                    !.callno = ncalls + 1]
           identifier == _extract_identifier(path)
       IN  Step(t, IF identifier.ok
                   THEN Done([f0 EXCEPT !.ident = identifier.v], "ok")
                   ELSE Done(f0, identifier.err))
    /\ UNCHANGED <<scenario, state, created, cache_size, cache_expired_time, _cache,
                   _cache_lock, _catalog_cache, _catalog_cache_lock, _hadoop_classpath, environ,
                   now, nloads, nopens, catFresh, fsFresh>>

\* the verb has returned or raised: its frame is gone
Return(t) ==
    /\ pc[t] = "done"
    /\ Step(t, Goto("idle", EmptyFrame))
    /\ UNCHANGED <<scenario, state, created, cache_size, cache_expired_time, _cache,
                   _cache_lock, _catalog_cache, _catalog_cache_lock, _hadoop_classpath, environ,
                   now, ncalls, nloads, nopens, catFresh, fsFresh>>

\* time passes
Tick ==
    /\ state = "ready"
    /\ now < MaxTime
    /\ now' = now + 1
    /\ UNCHANGED <<scenario, state, created, cache_size, cache_expired_time, _cache,
                   _cache_lock, _catalog_cache, _catalog_cache_lock, _hadoop_classpath, environ,
                   pc, fr, ncalls, nloads, nopens, catFresh, fsFresh>>

Facade ==
    \/ Construct
    \/ \E t \in Threads : Call(t)
    \/ \E t \in Threads : CatRAcq(t)
    \/ \E t \in Threads : CatRGet(t)
    \/ \E t \in Threads : CatRRel(t)
    \/ \E t \in Threads : CatWReq(t)
    \/ \E t \in Threads : CatWAcq(t)
    \/ \E t \in Threads : CatWGet(t)
    \/ \E t \in Threads : CatLoad(t)
    \/ \E t \in Threads : CatWRel(t)
    \/ \E t \in Threads : Resolve(t)
    \/ \E t \in Threads : FsRAcq(t)
    \/ \E t \in Threads : FsRGet(t)
    \/ \E t \in Threads : FsRRel(t)
    \/ \E t \in Threads : FsWReq(t)
    \/ \E t \in Threads : FsWAcq(t)
    \/ \E t \in Threads : FsWGet(t)
    \/ \E t \in Threads : FsBoot(t)
    \/ \E t \in Threads : FsOpen(t)
    \/ \E t \in Threads : FsWRel(t)
    \/ \E t \in Threads : Delegate(t)
    \/ \E t \in Threads : Return(t)

Next == Facade \/ Tick

\* two callers on one facade, both cache policies, the clock running
Spec == Init /\ [][Next]_vars

\* one caller, every backend and cache option, the clock running
SpecPolicy == InitPolicy /\ [][Next]_vars

\* one caller, every verb and every virtual path, the LRU policy
SpecFacade == InitFacade /\ [][Facade]_vars

\* one caller listing filesets of every storage type and location
SpecTranslate == InitTranslate /\ [][Facade]_vars

\* GravitinoVirtualFileSystem(...) once more in the same process: the new
\* instance has no attribute of its own yet, so its _hadoop_classpath is the
\* class attribute of line 75, which no line of the class assigns; the
\* environment of the process stays. The callers use the new instance.
NewInstance ==
    /\ scenario = "instances"
    /\ state \in {"ready", "failed"}
    /\ \A t \in Threads : pc[t] = "idle"
    /\ ncalls < CallBudget(scenario)
    /\ state' = "new"
    /\ created' = {}
    /\ cache_size' = 0
    /\ cache_expired_time' = 0
    /\ _cache' = <<>>
    /\ _cache_lock' = FreeLock
    /\ _catalog_cache' = <<>>
    /\ _catalog_cache_lock' = FreeLock
    /\ _hadoop_classpath' = "None"
    /\ catFresh' = [k \in CatKeys |-> 0]
    /\ fsFresh' = [k \in FsKeys |-> 0]
    /\ UNCHANGED <<scenario, environ, now, pc, fr, ncalls, nloads, nopens>>

\* Fair scheduling. A caller that has a step to take takes it: lookups,
\* releases, load_catalog, the request, the bootstrap, the open and the
\* backend call all terminate. A caller waiting for a mutex of a lock gets
\* it if the mutex is free again and again. Nobody is obliged to call.
Acquire(t) ==
    \/ CatRAcq(t) \/ CatWReq(t) \/ CatWAcq(t)
    \/ FsRAcq(t) \/ FsWReq(t) \/ FsWAcq(t)
Proceed(t) ==
    \/ CatRGet(t) \/ CatRRel(t) \/ CatWGet(t) \/ CatLoad(t) \/ CatWRel(t)
    \/ Resolve(t)
    \/ FsRGet(t) \/ FsRRel(t) \/ FsWGet(t) \/ FsBoot(t) \/ FsOpen(t) \/ FsWRel(t)
    \/ Delegate(t) \/ Return(t)
Fairness ==
    \A t \in ActiveThreads("fair") : WF_vars(Proceed(t)) /\ SF_vars(Acquire(t))

\* the callers of "fair" on one facade, calling for ever, fairly scheduled
SpecFair == InitFair /\ [][Facade]_vars /\ Fairness

\* one facade after another in one process
NextInstances == Facade \/ NewInstance
SpecInstances == InitInstances /\ [][NextInstances]_vars

\* _extract_identifier on its own, on every path of ExtractPaths
NextExtract ==
    \/ Construct
    \/ \E t \in Threads : Extract(t)
    \/ \E t \in Threads : Return(t)
SpecExtract == InitExtract /\ [][NextExtract]_vars

(***************************************************************************)
(* What the properties below read off a state.                             *)
(***************************************************************************)
\* scheme and authority of scheme://authority/path, read off the text
SchemeOf(path) ==
    IF \E i \in 1..Len(path) : path[i] = ":"
    THEN SubSeq(path, 1, (CHOOSE i \in 1..Len(path) :
                            path[i] = ":" /\ \A j \in 1..(i - 1) : path[j] # ":") - 1)
    ELSE <<>>
AuthorityOf(path) == NoSlashRun(DropPrefix(path, Len(SchemeOf(path)) + 3))
IsLocalPath(path) == SchemeOf(path) = LOCAL_value

\* handle h is a handle of the backend that actual path a lies on
ServesPath(h, a) ==
    IF h.kind = "local" THEN IsLocalPath(a)
    ELSE /\ ~IsLocalPath(a)
         /\ SchemeOf(h.uri) = SchemeOf(a)
         /\ AuthorityOf(h.uri) = AuthorityOf(a)

\* the entry is one a lookup at the present time may return
Live(e) == cache_expired_time < 0 \/ now < e.val.at + cache_expired_time
LiveEntries(c) == SelectSeq(c, Live)

\* the contexts of a frame, and the backend handles _get_filesystem has
\* returned to it
ContextsOf(f) == {f.ctxs[n] : n \in 1..Len(f.ctxs)} \cup (IF f.cur = NoCtx THEN {} ELSE {f.cur})
ReturnedFs(f) == UNION {{ctx.fss[j] : j \in 1..Len(ctx.fss)} : ctx \in ContextsOf(f)}
FsKeyOf(h) == IF h.kind = "local" THEN LOCAL_key ELSE _parse_storage_host_path(h.uri).v

\* the virtual path, with one leading gvfs:// taken off
Normalized(p) == IF StartsWith(p, gvfs_prefix) THEN DropPrefix(p, Len(gvfs_prefix)) ELSE p
\* fileset/ and then catalog, schema and fileset names, none of them empty,
\* any further names non-empty too, an optional last "/" aside
NamesFileset(q) ==
    /\ StartsWith(q, fileset_slash)
    /\ LET names == SplitSlash(DropPrefix(q, Len(fileset_slash)))
           body == IF Len(names) > 1 /\ names[Len(names)] = <<>>
                   THEN SubSeq(names, 1, Len(names) - 1)
                   ELSE names
       IN  Len(body) >= 3 /\ \A i \in 1..Len(body) : body[i] # <<>>
InvalidVirtualPath(p) == ~NamesFileset(Normalized(p))
HoldsNoLock(t) ==
    /\ _cache_lock.writer # t /\ _cache_lock.read_holder # t /\ t \notin _cache_lock.readers
    /\ _catalog_cache_lock.writer # t /\ _catalog_cache_lock.read_holder # t
    /\ t \notin _catalog_cache_lock.readers

(***************************************************************************)
(* C1                                                                      *)
(***************************************************************************)
\* C1: for both caches, however the callers interleave, a key is loaded
\* (opened) at most once for as long as it stays in the cache, also when
\* several callers missed it under the read lock; a caller that got a handle
\* holds the one handle loaded for the key, which is the cached one, and so
\* the callers that got a handle for the same key hold the same handle (a
\* handle dropped from the cache since it was returned aside).
C1_OneLoadSameHandle ==
    /\ \A k \in CatKeys : catFresh[k] <= 1
    /\ \A k \in FsKeys : fsFresh[k] <= 1
    /\ \A t, u \in Threads :
         (/\ fr[t].cat # NoCat /\ fr[u].cat # NoCat
          /\ fr[t].cat.ident = fr[u].cat.ident
          /\ ~fr[t].catLost /\ ~fr[u].catLost)
         => fr[t].cat = fr[u].cat
    /\ \A t, u \in Threads : \A g \in ReturnedFs(fr[t]), h \in ReturnedFs(fr[u]) :
         (/\ FsKeyOf(g) = FsKeyOf(h)
          /\ g.id \notin fr[t].fsLost /\ h.id \notin fr[u].fsLost)
         => g = h
    /\ \A t \in Threads :
         (fr[t].cat # NoCat /\ ~fr[t].catLost)
         => /\ catFresh[fr[t].cat.ident] = 1
            /\ \E i \in 1..Len(_catalog_cache) : _catalog_cache[i].val = fr[t].cat
    /\ \A t \in Threads : \A g \in ReturnedFs(fr[t]) :
         g.id \notin fr[t].fsLost
         => /\ fsFresh[FsKeyOf(g)] = 1
            /\ \E i \in 1..Len(_cache) : _cache[i].key = FsKeyOf(g) /\ _cache[i].val = g

\* two callers both missed the catalog and the backend under the read lock
\* and hold the same catalog and the same backend handle
C1_TwoMissesOneLoad ==
    \E t, u \in Threads :
        /\ t # u
        /\ fr[t].catMiss /\ fr[u].catMiss
        /\ fr[t].cat # NoCat /\ fr[t].cat = fr[u].cat
        /\ \E g \in ReturnedFs(fr[t]) \cap ReturnedFs(fr[u]) :
             g.id \in fr[t].fsMiss \cap fr[u].fsMiss

(***************************************************************************)
(* C2                                                                      *)
(***************************************************************************)
\* C2: a cp_file or mv whose two (valid) virtual paths name different
\* identifiers ends with the cross-fileset error and has done nothing: no
\* cache lookup, load, context request, open or backend operation; no such
\* call is ever past its validation.  With equal identifiers the call does
\* not end with that error.
C2_CrossIdentifierGuard ==
    \A t \in Threads :
        LET f == fr[t]
            src == _pre_process_path(f.p1)
            dst == _pre_process_path(f.p2)
        IN  (/\ pc[t] # "idle" /\ f.verb \in TwoPathVerbs
             /\ src.ok /\ dst.ok
             /\ _extract_identifier(src.v).ok /\ _extract_identifier(dst.v).ok)
            => IF _extract_identifier(src.v).v # _extract_identifier(dst.v).v
               THEN /\ pc[t] = "done"
                    /\ f.result = "CrossFileset"
                    /\ f.eff = {}
                    /\ f.op = NoOp
               ELSE f.result # "CrossFileset"

\* a mv between two filesets of one schema was rejected, the caches in use
C2_MoveAcrossFilesets ==
    \E t \in Threads :
        /\ pc[t] = "done"
        /\ fr[t].verb = "mv"
        /\ fr[t].p1 = V_c_s_f_a /\ fr[t].p2 = V_c_s_g
        /\ fr[t].result = "CrossFileset"
        /\ _cache # <<>> /\ _catalog_cache # <<>>

(***************************************************************************)
(* C3                                                                      *)
(***************************************************************************)
\* C3: whatever the verb, a call with a virtual path argument that does not
\* normalize to fileset/ plus three non-empty names ends with an error and
\* has done nothing: no cache lookup, no catalog load, no context request, no
\* open, no backend operation.
C3_InvalidPathNoEffect ==
    \A t \in Threads :
        LET f == fr[t]
        IN  (/\ pc[t] # "idle"
             /\ \/ InvalidVirtualPath(f.p1)
                \/ f.verb \in TwoPathVerbs /\ InvalidVirtualPath(f.p2))
            => /\ pc[t] = "done"
               /\ f.result \notin {"", "ok"}
               /\ f.eff = {}
               /\ f.op = NoOp

\* an open of a path with an empty schema name was rejected, the caches in use
C3_EmptyNameRejected ==
    \E t \in Threads :
        /\ pc[t] = "done"
        /\ fr[t].verb = "open"
        /\ fr[t].p1 = I_empty_segment
        /\ fr[t].result = "InvalidPath"
        /\ _cache # <<>> /\ _catalog_cache # <<>>

(***************************************************************************)
(* C4                                                                      *)
(***************************************************************************)
\* C4: when _init_hadoop_classpath has failed, the attribute is still None and
\* the cache has no live entry for the key while the caller is on its way out
\* under the write lock; the call ends with the bootstrap error, without a
\* backend operation and holding no lock; and a distributed handle is opened
\* only with the attribute set, so the next such open runs the bootstrap.
C4_BootstrapFailure ==
    \A t \in Threads :
        LET f == fr[t]
        IN  /\ (pc[t] = "f_wrel" /\ f.exc = "BootstrapFailed")
               => /\ _hadoop_classpath = "None"
                  /\ \A i \in 1..Len(_cache) : _cache[i].key = f.key => ~Live(_cache[i])
                  /\ _cache_lock.writer = t
            /\ (pc[t] = "done" /\ "bootstrap" \in f.eff /\ "open" \notin f.eff)
               => /\ f.result = "BootstrapFailed"
                  /\ "op" \notin f.eff
                  /\ HoldsNoLock(t)
            /\ (pc[t] = "f_open" /\ f.stype # "LOCAL") => _hadoop_classpath = "set"
            /\ (pc[t] = "f_boot") => _hadoop_classpath = "None" /\ _cache_lock.writer = t

\* one caller's bootstrap failed, and the other's, run after it, succeeded
C4_BootstrapRetried ==
    \E t, u \in Threads :
        /\ pc[t] = "done" /\ fr[t].result = "BootstrapFailed"
        /\ pc[u] = "f_open" /\ "bootstrap" \in fr[u].eff
        /\ _cache_lock.writer = u

C6_HandleOfSameSchemeAndAuthority ==
    \A t \in Threads : \A ctx \in ContextsOf(fr[t]) : \A j \in 1..Len(ctx.fss) :
        ctx.fss[j].kind = "hadoop"
        => /\ SchemeOf(ctx.fss[j].uri) = SchemeOf(ctx.actual_paths[j])
           /\ AuthorityOf(ctx.fss[j].uri) = AuthorityOf(ctx.actual_paths[j])

(***************************************************************************)
(* C7                                                                      *)
(***************************************************************************)
\* the keys of any two actual paths on one backend are equal
SameBackendSameKey ==
    \A a, b \in AllActualPaths :
        (/\ _parse_storage_host_path(a).ok /\ _parse_storage_host_path(b).ok
         /\ \/ IsLocalPath(a) /\ IsLocalPath(b)
            \/ SchemeOf(a) = SchemeOf(b) /\ AuthorityOf(a) = AuthorityOf(b))
        => _parse_storage_host_path(a).v = _parse_storage_host_path(b).v

\* C7: two actual paths of one scheme and authority, and two local paths,
\* have the same key; and a handle is opened only when the cache has no live
\* handle of the backend the path lies on, whatever fileset or sub-path the
\* cached handle was opened for.
C7_KeyIgnoresFilesetAndSubPath ==
    /\ SameBackendSameKey
    /\ \A t \in Threads :
         pc[t] = "f_open"
         => \A i \in 1..Len(_cache) :
               Live(_cache[i])
               => ~ServesPath(_cache[i].val, fr[t].cur.actual_paths[fr[t].i])

\* a later call for another catalog and another sub-path got the handle the
\* first call opened
C7_SharedAcrossFilesets ==
    \E t \in Threads :
        /\ pc[t] = "delegate"
        /\ fr[t].callno = 2
        /\ fr[t].ident[2] = <<"d">>
        /\ fr[t].ctxs[1].actual_paths = <<A_hdfs_n_y>>
        /\ fr[t].ctxs[1].fss[1].uri = A_hdfs_n_x
        /\ nopens = 1

(***************************************************************************)
(* C8                                                                      *)
(***************************************************************************)
\* the insert of key k into a cache whose (live) entries were before: the
\* new entry is the most recent, and when before was full and without k,
\* exactly its least recently used entry has gone
InsertedLRU(before, after, k, maxsize) ==
    /\ after # <<>> /\ after[Len(after)].key = k
    /\ (Len(before) = maxsize /\ k \notin CacheKeys(before))
       => /\ Len(after) = maxsize
          /\ CacheKeys(after) = (CacheKeys(before) \ {before[1].key}) \cup {k}
\* a successful lookup of k: k is the most recent, the others keep their order
LookedUp(before, after, k) ==
    /\ after[Len(after)].key = k
    /\ CacheRemove(after, k) = CacheRemove(before, k)

C8_Bounded ==
    /\ Len(_catalog_cache) <= CatalogCacheMaxSize
    /\ state = "ready" => Len(_cache) <= cache_size

C8_Step ==
    \A t \in Threads :
        /\ (pc[t] = "c_load" /\ nloads' = nloads + 1)
           => InsertedLRU(_catalog_cache, _catalog_cache', CatalogIdent(fr[t].ident),
                          CatalogCacheMaxSize)
        /\ (pc[t] = "f_open" /\ nopens' = nopens + 1)
           => InsertedLRU(LiveEntries(_cache), _cache', fr[t].key, cache_size)
        /\ (pc[t] \in {"c_rget", "c_wget"} /\ fr'[t].ccval # NoCat)
           => LookedUp(_catalog_cache, _catalog_cache', CatalogIdent(fr[t].ident))
        /\ (pc[t] \in {"f_rget", "f_wget"} /\ fr'[t].fcval # NoFs)
           => LookedUp(_cache, _cache', fr[t].key)

\* C8: the catalog cache never holds more entries than its maxsize (100 in
\* the source, CatalogCacheMaxSize here) and the backend cache never more
\* than cache_size; an insert of a new key into a full cache removes exactly
\* one entry, the least recently used one, where inserts and successful
\* lookups make a key the most recently used.
C8_BoundedLRU == []C8_Bounded /\ [][C8_Step]_vars

\* a full backend cache of two: the handle opened first was looked up again,
\* so the third open evicted the second handle
C8_LookupSavedTheOldest ==
    /\ cache_size = 2 /\ cache_expired_time < 0
    /\ nopens = 3
    /\ Len(_cache) = 2
    /\ _cache[1].val.id = 1
    /\ _cache[2].val.id = 3

(***************************************************************************)
(* C9                                                                      *)
(***************************************************************************)
\* C9: a construction with cache_size <= 0 or cache_expired_time = 0 fails
\* with neither cache nor lock created and nothing used; with any other
\* options it succeeds and all four exist.
C9_OptionsValidated ==
    /\ state # "new"
       => (state = "failed" <=> (cache_size <= 0 \/ cache_expired_time = 0))
    /\ state = "failed"
       => /\ created = {}
          /\ _cache = <<>> /\ _catalog_cache = <<>>
          /\ _cache_lock = FreeLock /\ _catalog_cache_lock = FreeLock
          /\ ncalls = 0
    /\ state = "ready"
       => created = {"_cache", "_cache_lock", "_catalog_cache", "_catalog_cache_lock"}

\* a construction with a positive capacity failed on an expiry of 0
C9_ExpiryZeroRejected ==
    state = "failed" /\ cache_size > 0 /\ cache_expired_time = 0

(***************************************************************************)
(* C10                                                                     *)
(***************************************************************************)
C10_Step ==
    \A t \in Threads :
        \* a lookup that returns a handle returns it before its expiry
        /\ (pc[t] \in {"f_rget", "f_wget"} /\ fr'[t].fcval # NoFs)
           => \/ cache_expired_time < 0
              \/ now < fr'[t].fcval.at + cache_expired_time
        \* without expiry a lookup returns the handle the cache has
        /\ (/\ pc[t] \in {"f_rget", "f_wget"} /\ pc'[t] # pc[t]
            /\ cache_expired_time < 0
            /\ fr[t].key \in CacheKeys(_cache))
           => /\ fr'[t].fcval = _cache[CacheIdx(_cache, fr[t].key)].val
              /\ nopens' = nopens
        \* with expiry a lookup at or after it returns nothing and leads to
        \* the open
        /\ (/\ pc[t] = "f_wget" /\ pc'[t] # pc[t]
            /\ cache_expired_time > 0
            /\ \E i \in 1..Len(_cache) :
                 _cache[i].key = fr[t].key /\ now >= _cache[i].val.at + cache_expired_time)
           => /\ fr'[t].fcval = NoFs
              /\ pc'[t] \in {"f_boot", "f_open"}
        \* an open puts the new handle in the cache
        /\ (pc[t] = "f_open" /\ nopens' = nopens + 1)
           => /\ _cache'[Len(_cache')].key = fr[t].key
              /\ _cache'[Len(_cache')].val.id = nopens'
              /\ _cache'[Len(_cache')].val.at = now

\* C10: with cache_expired_time < 0 a lookup returns the cached handle of its
\* key whatever the time; with cache_expired_time > 0 a lookup never returns
\* a handle at or after its insertion time plus cache_expired_time: it misses,
\* and the open that follows inserts a new handle.
C10_ExpirySelectsPolicy == [][C10_Step]_vars

\* a TTL cache still holds the expired handle of the key about to be opened
C10_ReopenAfterExpiry ==
    \E t \in Threads :
        /\ cache_expired_time > 0
        /\ pc[t] = "f_open"
        /\ fr[t].key \in CacheKeys(_cache)

(***************************************************************************)
(* C11                                                                     *)
(***************************************************************************)
\* C11: every entry of the catalog cache, and every catalog handle a caller
\* got from _get_fileset_catalog, is a catalog that load_catalog returned for
\* that very identifier; when load_catalog has raised, the cache has no entry
\* for the key while the caller is on its way out under the write lock, the
\* call ends with that error, with no request to the server and no backend
\* call, holding no lock; and a load runs only for a key the cache lacks, so
\* the next call for the key loads again.
C11_NoPartialCatalog ==
    /\ \A i \in 1..Len(_catalog_cache) :
         /\ _catalog_cache[i].val.ident = _catalog_cache[i].key
         /\ _catalog_cache[i].val.id \in 1..nloads
    /\ \A t \in Threads :
         LET f == fr[t]
         IN  /\ f.cat # NoCat
                => f.cat.ident = CatalogIdent(f.ident) /\ f.cat.id \in 1..nloads
             /\ (pc[t] = "c_wrel" /\ f.exc = "LoadFailed")
                => /\ CatalogIdent(f.ident) \notin CacheKeys(_catalog_cache)
                   /\ _catalog_cache_lock.writer = t
                   /\ f.ccval = NoCat
             /\ (pc[t] = "done" /\ "load" \in f.eff /\ f.cat = NoCat)
                => /\ f.result = "LoadFailed"
                   /\ f.eff \cap {"resolve", "fs_lookup", "open", "op"} = {}
                   /\ HoldsNoLock(t)
             /\ pc[t] = "c_load"
                => /\ CatalogIdent(f.ident) \notin CacheKeys(_catalog_cache)
                   /\ _catalog_cache_lock.writer = t

\* one caller's load_catalog raised; the other caller, for the same catalog,
\* loaded it afterwards and has its handle
C11_LoadedAfterFailure ==
    \E t, u \in Threads :
        /\ pc[t] = "done" /\ fr[t].result = "LoadFailed"
        /\ fr[u].cat # NoCat /\ "load" \in fr[u].eff
        /\ CatalogIdent(fr[u].ident) = CatalogIdent(_extract_identifier(fr[t].p1).v)

(***************************************************************************)
(* C12, C13                                                                *)
(***************************************************************************)
\* the actual prefix of a call's fileset: the path of its storage location
ActualPrefixOf(f) ==
    IF _recognize_storage_type(f.ctxs[1].actual_paths[1]).v \in {"HDFS", "LAVAFS"}
    THEN InferPath(f.ctxs[1].location)
    ELSE DropPrefix(f.ctxs[1].location, Len(LOCAL_value) + 1)
\* an ls or info has had the backend's answer
Listed(t) == pc[t] = "done" /\ "op" \in fr[t].eff /\ fr[t].verb \in {"ls", "info"}
\* the entry is the location's directory or lies below it
Under(entry, prefix) ==
    LET base == IF prefix # <<>> /\ prefix[Len(prefix)] = "/"
                THEN SubSeq(prefix, 1, Len(prefix) - 1)
                ELSE prefix
    IN  entry = base \/ StartsWith(entry, base \o <<"/">>)

\* C12: when every entry the backend names starts with the actual prefix, ls
\* and info return, for each, the virtual location followed by the entry's
\* text after that leading prefix; otherwise they fail and return nothing.
C12_LeadingPrefixReplaced ==
    \A t \in Threads :
        Listed(t)
        => LET f == fr[t]
               prefix == ActualPrefixOf(f)
           IN  IF \A j \in 1..Len(f.entries) : StartsWith(f.entries[j], prefix)
               THEN /\ f.result = "ok"
                    /\ Len(f.out) = Len(f.entries)
                    /\ \A j \in 1..Len(f.entries) :
                         f.out[j] = _get_virtual_location(f.ident)
                                       \o DropPrefix(f.entries[j], Len(prefix))
               ELSE f.result = "InvalidPath" /\ f.out = <<>>

\* C13: the virtual path returned for an entry under the fileset's storage
\* location names the fileset's own catalog, schema and fileset.
C13_RoundTripIdentifier ==
    \A t \in Threads :
        (Listed(t) /\ \A j \in 1..Len(fr[t].entries) :
                         Under(fr[t].entries[j], ActualPrefixOf(fr[t])))
        => /\ fr[t].result = "ok"
           /\ \A j \in 1..Len(fr[t].out) :
                /\ _extract_identifier(fr[t].out[j]).ok
                /\ _extract_identifier(fr[t].out[j]).v = fr[t].ident

(***************************************************************************)
(* C14                                                                     *)
(***************************************************************************)
\* the names of the path after fileset/, an optional last "/" aside
NamesAfterFileset(q) ==
    LET names == SplitSlash(DropPrefix(q, Len(fileset_slash)))
    IN  IF Len(names) > 1 /\ names[Len(names)] = <<>>
        THEN SubSeq(names, 1, Len(names) - 1)
        ELSE names

\* C14: on fileset/{catalog}/{schema}/{fileset}[/{subpath...}] with no empty
\* name, _extract_identifier returns the metalake and the first three names,
\* whatever follows them; on every other path, None among them, it raises
\* and returns no identifier.
C14_ExtractsFirstThreeNames ==
    \A t \in Threads :
        (pc[t] = "done" /\ fr[t].verb = "_extract_identifier")
        => IF fr[t].p1 # None /\ NamesFileset(fr[t].p1)
           THEN /\ fr[t].result = "ok"
                /\ fr[t].ident = <<Metalake, NamesAfterFileset(fr[t].p1)[1],
                                   NamesAfterFileset(fr[t].p1)[2],
                                   NamesAfterFileset(fr[t].p1)[3]>>
           ELSE /\ fr[t].result = "InvalidPath"
                /\ fr[t].ident = <<>>

\* the identifier c, st, c was read off fileset/c/st/c/st/
C14_SubPathIgnored ==
    \E t \in Threads :
        /\ pc[t] = "done" /\ fr[t].verb = "_extract_identifier"
        /\ fr[t].p1 = fileset_word \o Seg(<<"c">>) \o Seg(<<"s", "t">>) \o Seg(<<"c">>)
                        \o Seg(<<"s", "t">>) \o <<"/">>
        /\ fr[t].ident = <<Metalake, <<"c">>, <<"s", "t">>, <<"c">>>>

(***************************************************************************)
(* C15                                                                     *)
(***************************************************************************)
\* C15: a created call that resolved to a distributed backend and ended
\* with the unsupported-operation error has run no bootstrap, opened no
\* handle, holds no handle and delegated nothing; a created call that
\* resolved to the local backend delegated created on the path without its
\* protocol.
C15_CreatedFailsBeforeBackend ==
    \A t \in Threads :
        (pc[t] = "done" /\ fr[t].verb = "created")
        => /\ fr[t].result = "UnsupportedOperation"
              => /\ fr[t].op = NoOp
                 /\ fr[t].eff \cap {"bootstrap", "open"} = {}
                 /\ ReturnedFs(fr[t]) = {}
                 /\ \A ctx \in ContextsOf(fr[t]) :
                        \A j \in 1..Len(ctx.actual_paths) : ~IsLocalPath(ctx.actual_paths[j])
           /\ (fr[t].ctxs # <<>> /\ IsLocalPath(fr[t].ctxs[1].actual_paths[1]))
              => /\ fr[t].result = "ok"
                 /\ fr[t].op.method = "created"
                 /\ fr[t].op.args =
                        <<DropPrefix(fr[t].ctxs[1].actual_paths[1], Len(LOCAL_value) + 1)>>

(***************************************************************************)
(* C16                                                                     *)
(***************************************************************************)
\* C16: once _init_hadoop_classpath has completed in the process (CLASSPATH
\* carries the hadoop classpath), no caller of any facade instance is about
\* to run it again, and it never completes a second time.
C16_BootstrapOncePerProcess ==
    /\ environ > 0 => \A t \in Threads : pc[t] # "f_boot"
    /\ environ <= 1

(***************************************************************************)
(* C17                                                                     *)
(***************************************************************************)
InGetFilesetCatalog(t) ==
    pc[t] \in {"c_racq", "c_rget", "c_rrel", "c_wreq", "c_wacq", "c_wget", "c_load", "c_wrel"}
InGetFilesystem(t) ==
    pc[t] \in {"f_racq", "f_rget", "f_rrel", "f_wreq", "f_wacq", "f_wget", "f_boot",
               "f_open", "f_wrel"}

InExclusiveFs(t) == pc[t] \in {"f_wget", "f_boot", "f_open", "f_wrel"}

\* C18 as stated: the check of the flag and its setting are not atomic, so
\* while one caller is between its check and the end of the bootstrap,
\* another caller that missed a different backend key is free to go on to
\* its own check of the flag.
C18_CheckAndSetNotAtomic ==
    \A t, u \in Threads :
        (/\ t # u
         /\ pc[t] = "f_boot"
         /\ pc[u] = "f_wreq"
         /\ fr[t].key # fr[u].key)
        => ENABLED FsWReq(u)

\* C18, amended: on one facade the flag is checked and set under the
\* exclusive lock of the backend cache. From the second lookup to the release
\* a caller is the writer of _cache_lock, so at most one caller is there; a
\* caller about to run the bootstrap has found the flag unset and it still
\* is; the bootstrap completes at most once; and of two callers that have
\* both run the bootstrap, one has failed in it.
C18_CheckAndSetUnderExclusiveLock ==
    /\ \A t \in Threads : InExclusiveFs(t) => _cache_lock.writer = t
    /\ \A t \in Threads : pc[t] = "f_boot" => _hadoop_classpath = "None"
    /\ environ <= 1
    /\ \A t, u \in Threads :
        (t # u /\ "bootstrap" \in fr[t].eff /\ "bootstrap" \in fr[u].eff)
        => (fr[t].exc = "BootstrapFailed" \/ fr[u].exc = "BootstrapFailed")

\* two callers with different backend keys have both run the bootstrap: the
\* first one failed in it, the second one has opened its handle
C18_SecondBootstrapAfterFailure ==
    \E t, u \in Threads :
        /\ pc[t] = "done" /\ fr[t].result = "BootstrapFailed"
        /\ pc[u] = "f_wrel" /\ fr[u].exc = "" /\ "bootstrap" \in fr[u].eff
        /\ fr[t].key # fr[u].key

(***************************************************************************)
(* C19                                                                     *)
(***************************************************************************)
\* what a caller holds of one lock
HoldsShared(lock, t) == t \in lock.readers
HoldsExclusive(lock, t) == lock.writer = t
HoldsNothingOf(lock, t) == lock.writer # t /\ lock.read_holder # t /\ t \notin lock.readers

\* C19: a caller that waits for a lock holds no lock: before it asks for the
\* shared or the exclusive lock of a cache it holds nothing of either lock,
\* and while it waits for the readers to leave it holds the writers' turn of
\* that lock only. Inside _get_filesystem it holds nothing of the catalog
\* lock, inside _get_fileset_catalog nothing of the backend lock. Outside
\* both, after a return or an exception too, it holds no lock. And whenever
\* a caller is inside a call, some caller has a step to take.
C19_LockDiscipline ==
    /\ \A t \in Threads :
        /\ pc[t] \in {"c_racq", "c_wreq", "f_racq", "f_wreq"} => HoldsNoLock(t)
        /\ pc[t] = "c_wacq"
            => /\ ~HoldsShared(_catalog_cache_lock, t)
               /\ ~HoldsExclusive(_catalog_cache_lock, t)
               /\ HoldsNothingOf(_cache_lock, t)
        /\ pc[t] = "f_wacq"
            => /\ ~HoldsShared(_cache_lock, t)
               /\ ~HoldsExclusive(_cache_lock, t)
               /\ HoldsNothingOf(_catalog_cache_lock, t)
        /\ InGetFilesystem(t) => HoldsNothingOf(_catalog_cache_lock, t)
        /\ InGetFilesetCatalog(t) => HoldsNothingOf(_cache_lock, t)
        /\ (~InGetFilesystem(t) /\ ~InGetFilesetCatalog(t)) => HoldsNoLock(t)
    /\ (\E t \in Threads : pc[t] # "idle")
        => \E u \in Threads : ENABLED (Proceed(u) \/ Acquire(u))

\* a caller waits for the exclusive lock of the backend cache, which another
\* one holds and is about to leave by an exception
C19_WaitsWhileOtherFails ==
    \E t, u \in Threads :
        /\ pc[t] = "f_wreq"
        /\ pc[u] = "f_wrel" /\ fr[u].exc # "" /\ _cache_lock.writer = u

(***************************************************************************)
(* C20                                                                     *)
(***************************************************************************)
\* a cache changes only in a step of the caller that is its writer
C20_Step ==
    /\ _catalog_cache' # _catalog_cache
        => \E t \in Threads :
              /\ _catalog_cache_lock.writer = t
              /\ pc[t] \in {"c_wget", "c_load"} /\ pc'[t] # pc[t]
    /\ _cache' # _cache
        => \E t \in Threads :
              /\ _cache_lock.writer = t
              /\ pc[t] \in {"f_wget", "f_open"} /\ pc'[t] # pc[t]

\* C20: a step that changes a cache (its entries, their order of recency or
\* their expiry times) is taken by a caller that holds the exclusive lock of
\* that cache; the lookup under the shared lock leaves the cache as it was.
C20_ChangedUnderExclusiveLockOnly == [][C20_Step]_vars
====
